---------------------------- MODULE Spec2Model ----------------------------
(***************************************************************************)
(* Model of teensy_sync.py: the identity-line parser, the USB endpoint     *)
(* filter, the discovery scan, the broadcast coordinator and main.         *)
(*                                                                         *)
(* Text is modelled as a sequence of atoms.  An atom is either one         *)
(* whitespace character (" ", "\t", "\n"), one undecodable byte, or a      *)
(* word.  The words of device lines, "ID", "FW", "CAPS", "x", "y", form a  *)
(* prefix-free code, so two atom sequences are equal exactly when the      *)
(* strings they spell are equal, and a string starts with "ID " exactly    *)
(* when its first two atoms are "ID" and " ".  The words of commands       *)
(* ("DISCOVER?", "sync", "stop", "n", ...) are always set apart by         *)
(* whitespace atoms.                                                       *)
(***************************************************************************)
EXTENDS Integers, Sequences, FiniteSets, TLC

VARIABLES
    line,       \* parser: the text handed to parse_id_line
    parsed,     \* parser: what parse_id_line returned, or Pending
    rt,         \* parser: the (id, fw, caps) a formatted line was built from
    cand,       \* filter: the ListPortInfo handed to is_usb_serial_port
    verdict,    \* filter: what is_usb_serial_port returned, or Pending
    ports_all,  \* discovery: list_ports.comports(), a sequence of ListPortInfo
    d_pc,       \* discovery: position in discover_boards
    d_j,        \* discovery: 1-based position of the for loop in ports
    d_boards,   \* discovery: boards
    d_uniq,     \* discovery: the list returned
    d_open,     \* discovery: ports opened on which close() has not been called
    d_lines,    \* discovery: lines collected by the running read_lines_for
    d_reads,    \* discovery: readline calls made by the running read_lines_for
    d_pass,     \* discovery: which read pass is running or ran last (1 or 2)
    d_id_line,  \* discovery: id_line
    d_raising,  \* discovery: an exception is propagating out of the try body
    d_result,   \* discovery: "running", "returned" or "raised"
    d_tried,    \* history: the ports open_port was called on, in order
    d_hard,     \* history: ports whose open, write or flush failed, or that
                \*          gave no identity line or a malformed one
    d_soft,     \* history: ports where a buffer reset, a readline or close failed
    d_last,     \* history: the last transport operation and its outcome
    d_cur,      \* history: what was written to and read from the port the for
                \*          loop is at
    b_boards,   \* broadcast: the boards argument
    b_pc,       \* broadcast: position in broadcast_command
    b_i,        \* broadcast: 1-based position of the running for loop
    sers,       \* broadcast: the dict sers, as its items in insertion order
    b_lines,    \* broadcast: lines collected by the running read_lines_for
    b_reads,    \* broadcast: readline calls made by the running read_lines_for
    b_raising,  \* broadcast: an exception is propagating out of the try body
    b_result,   \* broadcast: "running", "returned" or "raised"
    b_opened,   \* history: transports open_port returned
    b_closed,   \* history: transports on which close() was called
    b_ops,      \* history: per transport, how often each operation was called
    b_warn,     \* history: the [WARN] lines printed
    b_report,   \* history: "No ports could be opened." was printed
    b_slept,    \* history: the time.sleep calls made
    b_last,     \* history: the last step, its outcome and what it printed
    b_cmd,      \* broadcast: the cmd argument
    b_sent,     \* history: per transport, the payloads handed to write
    m_args,     \* main: args, the parsed command line
    m_pc,       \* main: position in main
    m_boards,   \* main: boards
    m_exit,     \* main: the exit code returned, or Pending
    m_found,    \* history: what discover_boards returned (<<>> before the call)
    m_calls     \* history: the broadcast_command calls made, in order

parseVars == <<line, parsed, rt>>
filterVars == <<cand, verdict>>
discVars ==
    <<ports_all, d_pc, d_j, d_boards, d_uniq, d_open, d_lines, d_reads, d_pass,
      d_id_line, d_raising, d_result, d_tried, d_hard, d_soft, d_last, d_cur>>

bcVars ==
    <<b_boards, b_pc, b_i, sers, b_lines, b_reads, b_raising, b_result, b_opened,
      b_closed, b_ops, b_warn, b_report, b_slept, b_last, b_cmd, b_sent>>

mainVars == <<m_args, m_pc, m_boards, m_exit, m_found, m_calls>>

vars == <<parseVars, filterVars, discVars, bcVars, mainVars>>

\* the value of a result variable before the function has been applied
Pending == [pending |-> TRUE]

(***************************************************************************)
(* Bounds of the model.                                                    *)
(***************************************************************************)
MaxLineLen == 7     \* atoms in a line handed to the parser
MaxCapsLen == 3     \* atoms in the capabilities text of a formatted line
MaxTokLen == 1      \* atoms in a boardID / firmwareVersion of a formatted line
MaxPorts == 3       \* serial ports the platform enumerates
MaxReads == 2       \* readline calls that fit into one read_lines_for window
MaxBoards == 3      \* boards handed to broadcast_command

(***************************************************************************)
(* Text helpers: str.split(), str.strip(), str.startswith(), " ".join().   *)
(***************************************************************************)
Whitespace == {" ", "\t", "\n"}

Words == {"ID", "FW", "CAPS", "x"}

RECURSIVE SplitFrom(_, _, _)
\* str.split() with no argument: the maximal runs of non-whitespace, in order;
\* cur is the token being collected at position i.
SplitFrom(s, i, cur) ==
    IF i > Len(s) THEN (IF cur = <<>> THEN <<>> ELSE <<cur>>)
    ELSE IF s[i] \in Whitespace
         THEN (IF cur = <<>> THEN <<>> ELSE <<cur>>) \o SplitFrom(s, i + 1, <<>>)
         ELSE SplitFrom(s, i + 1, Append(cur, s[i]))

Split(s) == SplitFrom(s, 1, <<>>)

StartsWith(s, prefix) ==
    /\ Len(s) >= Len(prefix)
    /\ SubSeq(s, 1, Len(prefix)) = prefix

RECURSIVE JoinNoSeparator(_)
\* A join that drops the separator.
JoinNoSeparator(toks) ==
    IF toks = <<>> THEN <<>> ELSE Head(toks) \o JoinNoSeparator(Tail(toks))

RECURSIVE Join(_)
\* " ".join(toks)
Join(toks) ==
    IF toks = <<>> THEN <<>>
    ELSE IF Len(toks) = 1 THEN Head(toks)
    ELSE Head(toks) \o <<" ">> \o Join(Tail(toks))

RECURSIVE IndexFrom(_, _, _)
\* list.index(tok): the 0-based position of the first element equal to tok;
\* raises ValueError when there is none.
IndexFrom(parts, tok, i) ==
    IF i >= Len(parts) THEN [raised |-> TRUE, at |-> 0]
    ELSE IF parts[i + 1] = tok THEN [raised |-> FALSE, at |-> i]
    ELSE IndexFrom(parts, tok, i + 1)

\* An index that answers with the last occurrence instead of the first.
LastIndex(parts, tok) ==
    IF \E i \in 1..Len(parts) : parts[i] = tok
    THEN [raised |-> FALSE,
          at |-> (CHOOSE i \in 1..Len(parts) :
                     /\ parts[i] = tok
                     /\ \A j \in (i + 1)..Len(parts) : parts[j] # tok) - 1]
    ELSE [raised |-> TRUE, at |-> 0]

Index(parts, tok) == IndexFrom(parts, tok, 0)

\* parts[i] with Python's 0-based index
At(parts, i) == parts[i + 1]

\* parts[i:]
SliceFrom(parts, i) == SubSeq(parts, i + 1, Len(parts))

(***************************************************************************)
(* parse_id_line                                                           *)
(***************************************************************************)
None == [none |-> TRUE]

Identity(id, fw, caps) == [none |-> FALSE, board_id |-> id, fw |-> fw, caps |-> caps]

TokID == <<"ID">>
TokFW == <<"FW">>
TokCAPS == <<"CAPS">>

parse_id_line(ln) ==
    IF ~StartsWith(ln, <<"ID", " ">>) THEN None
    ELSE LET parts == Split(ln)
             i_fw == Index(parts, TokFW)
             i_caps == Index(parts, TokCAPS)
         IN  IF i_fw.raised \/ i_caps.raised THEN None
             ELSE IF Len(parts) < 2 \/ i_fw.at + 1 >= Len(parts) THEN None
             ELSE Identity(At(parts, 1),
                           At(parts, i_fw.at + 1),
                           IF i_caps.at + 1 < Len(parts)
                           THEN Join(SliceFrom(parts, i_caps.at + 1))
                           ELSE <<>>)

(***************************************************************************)
(* is_usb_serial_port                                                      *)
(*                                                                         *)
(* A text field of a ListPortInfo is modelled by which of the filter's six *)
(* needles occur in it when case is ignored, and by whether the field is   *)
(* written in upper case.  "usb serial device" contains "usb" and          *)
(* "standard serial over bluetooth" contains "bluetooth", so a field that  *)
(* holds the longer needle holds the shorter one too.  A field may also be *)
(* None (or, for manufacturer, missing).                                   *)
(***************************************************************************)
Needles ==
    {"teensy", "usb serial device", "usb", "bluetooth", "modem",
     "standard serial over bluetooth"}

SubstringClosed(toks) ==
    /\ "usb serial device" \in toks => "usb" \in toks
    /\ "standard serial over bluetooth" \in toks => "bluetooth" \in toks

NoneField == [isNone |-> TRUE, toks |-> {}, upper |-> FALSE]

EmptyStr == [isNone |-> FALSE, toks |-> {}, upper |-> FALSE]

Fields ==
    {NoneField} \cup
    { [isNone |-> FALSE, toks |-> t, upper |-> u] :
        t \in {t \in SUBSET Needles : SubstringClosed(t)}, u \in BOOLEAN }

\* (field or "")
OrEmpty(f) == IF f.isNone THEN EmptyStr ELSE f

\* A lowering that leaves the text as it is.
LowerIdentity(f) == f

\* str.lower()
Lower(f) == [f EXCEPT !.upper = FALSE]

\* needle in text, for a lower-case needle: the comparison is case-sensitive
In(needle, f) == needle \in f.toks /\ ~f.upper

is_usb_serial_port(p) ==
    LET desc == Lower(OrEmpty(p.description))
        hwid == Lower(OrEmpty(p.hwid))
        manuf == Lower(OrEmpty(p.manufacturer))
    IN  IF In("teensy", desc) \/ In("teensy", manuf) \/ In("teensy", hwid) THEN TRUE
        ELSE IF In("usb serial device", desc) THEN TRUE
        ELSE IF In("usb", desc) /\ ~In("bluetooth", desc) THEN TRUE
        ELSE IF In("usb", hwid) /\ ~In("bluetooth", hwid) THEN TRUE
        ELSE IF In("bluetooth", desc) \/ In("bluetooth", hwid) THEN FALSE
        ELSE IF In("modem", desc) \/ In("modem", hwid) THEN FALSE
        ELSE IF In("standard serial over bluetooth", desc) THEN FALSE
        ELSE FALSE

SeqsUpTo(S, n) == UNION { [1..k -> S] : k \in 0..n }

NoOps == [open |-> 0, reset |-> 0, write |-> 0, flush |-> 0, read |-> 0, close |-> 0]

NoStep == [op |-> "none", port |-> 0, outcome |-> "ok", warned |-> {}, shown |-> <<>>]

\* the variables of a function while another function runs
BcIdle ==
    /\ b_boards = <<>>
    /\ b_pc = "idle"
    /\ b_i = 1
    /\ sers = <<>>
    /\ b_lines = <<>>
    /\ b_reads = 0
    /\ b_raising = FALSE
    /\ b_result = "running"
    /\ b_opened = {}
    /\ b_closed = {}
    /\ b_ops = <<>>
    /\ b_warn = {}
    /\ b_report = FALSE
    /\ b_slept = <<>>
    /\ b_last = NoStep
    /\ b_cmd = <<>>
    /\ b_sent = <<>>

\* args.only when --only is absent (default=None), and when it is given
NoOnly == [given |-> FALSE, ids |-> <<>>]

Only(ids) == [given |-> TRUE, ids |-> ids]

NoArgs == [cmd |-> "none", only |-> NoOnly]

MainIdle ==
    /\ m_args = NoArgs
    /\ m_pc = "idle"
    /\ m_boards = <<>>
    /\ m_exit = Pending
    /\ m_found = <<>>
    /\ m_calls = <<>>

NoRt == [none |-> TRUE]

ParseIdle == line = <<>> /\ parsed = Pending /\ rt = NoRt

NoCand == [description |-> NoneField, hwid |-> NoneField, manufacturer |-> NoneField]

FilterIdle == cand = NoCand /\ verdict = Pending

(***************************************************************************)
(* Exceptions.  A transport operation ends "ok", raises                    *)
(* serial.SerialTimeoutException ("timeout") or raises another Exception   *)
(* ("error").  An except clause is the set of outcomes it catches.         *)
(***************************************************************************)
ExceptException == {"timeout", "error"}

ExceptSerialTimeout == {"timeout"}

NoEvent == [op |-> "none", port |-> 0, outcome |-> "ok"]

Event(op, port, outcome) == [op |-> op, port |-> port, outcome |-> outcome]

(***************************************************************************)
(* read_lines_for: what one iteration of the loop does with the bytes that *)
(* readline returned.                                                      *)
(***************************************************************************)
BadByte == "<bad>"

\* bytes.decode(errors="ignore"): undecodable bytes are dropped
Decode(raw) == SelectSeq(raw, LAMBDA a : a # BadByte)

RECURSIVE LStrip(_)
LStrip(s) == IF s # <<>> /\ Head(s) \in Whitespace THEN LStrip(Tail(s)) ELSE s

RECURSIVE RStrip(_)
RStrip(s) ==
    IF s # <<>> /\ s[Len(s)] \in Whitespace THEN RStrip(SubSeq(s, 1, Len(s) - 1)) ELSE s

\* str.strip()
Strip(s) == RStrip(LStrip(s))

\* A read loop with no deadline: it is left only when readline fails.
ReadLoopEndsOnFailureOnly(reads) == IF reads < MaxReads THEN {"error"} ELSE {}

\* How the loop of read_lines_for can end after `reads` readline calls: the
\* test time.time() < end fails ("deadline"), which the advancing clock allows
\* at any turn and forces once MaxReads calls were made, or one more readline
\* call raises ("error") and the loop is left by break.
ReadLoopEnds(reads) ==
    {"deadline"} \cup (IF reads < MaxReads THEN {"error"} ELSE {})

\* lines after one readline that returned raw
Collected(lines, raw) ==
    IF raw = <<>> THEN lines
    ELSE LET ln == Strip(Decode(raw))
         IN  IF ln # <<>> THEN Append(lines, ln) ELSE lines

(***************************************************************************)
(* discover_boards                                                         *)
(***************************************************************************)
DiscoverCmd == <<"DISCOVER?", "\n">>

\* A scan that takes every port the platform enumerates.
AllPorts(all) == [k \in 1..Len(all) |-> k]

RECURSIVE FilterPortsFrom(_, _)
\* [p for p in ports_all if is_usb_serial_port(p)], as positions in ports_all
FilterPortsFrom(all, i) ==
    IF i > Len(all) THEN <<>>
    ELSE (IF is_usb_serial_port(all[i]) THEN <<i>> ELSE <<>>) \o FilterPortsFrom(all, i + 1)

FilterPorts(all) == FilterPortsFrom(all, 1)

ports == FilterPorts(ports_all)

Board(port, id, fw, caps, desc) ==
    [port |-> port, board_id |-> id, fw |-> fw, caps |-> caps, desc |-> desc]

NoLine == [none |-> TRUE]

IdLine(ln) == [none |-> FALSE, text |-> ln]

RECURSIVE LastIdLine(_)
\* A scan of the lines that keeps the last line that starts with "ID ".
LastIdLine(lines) ==
    IF lines = <<>> THEN NoLine
    ELSE IF StartsWith(lines[Len(lines)], <<"ID", " ">>) THEN IdLine(lines[Len(lines)])
    ELSE LastIdLine(SubSeq(lines, 1, Len(lines) - 1))

RECURSIVE FirstIdLineFrom(_, _)
\* for ln in lines: if ln.startswith("ID "): id_line = ln; break
FirstIdLineFrom(lines, i) ==
    IF i > Len(lines) THEN NoLine
    ELSE IF StartsWith(lines[i], <<"ID", " ">>) THEN IdLine(lines[i])
    ELSE FirstIdLineFrom(lines, i + 1)

FirstIdLine(lines) == FirstIdLineFrom(lines, 1)

RECURSIVE DedupeFrom(_, _, _, _)
DedupeFrom(bs, i, seen, uniq) ==
    IF i > Len(bs) THEN uniq
    ELSE IF bs[i].board_id \in seen THEN DedupeFrom(bs, i + 1, seen, uniq)
    ELSE DedupeFrom(bs, i + 1, seen \cup {bs[i].board_id}, Append(uniq, bs[i]))

RECURSIVE DedupeKeepLast(_)
\* A de-duplication that keeps the last board of every boardID.
DedupeKeepLast(bs) ==
    IF bs = <<>> THEN <<>>
    ELSE IF \E k \in 2..Len(bs) : bs[k].board_id = bs[1].board_id
         THEN DedupeKeepLast(Tail(bs))
         ELSE <<bs[1]>> \o DedupeKeepLast(Tail(bs))

\* the de-dupe loop at the end of discover_boards
Dedupe(bs) == DedupeFrom(bs, 1, {}, <<>>)

\* except clauses of discover_boards
DiscoverOpenExcept == ExceptException
DiscoverResetExcept == ExceptException
\* A write handler that lacks the "except Exception" clause.
DiscoverWriteExceptTimeoutOnly == ExceptSerialTimeout
DiscoverWriteExcept == ExceptSerialTimeout \cup ExceptException
DiscoverCloseExcept == ExceptException

\* A loop body whose close is not in a finally clause: continue skips it.
NoFinallyClause == "for"

\* Where control goes when the try body is left by continue or at its end: the
\* finally clause closes the port first.
FinallyClause == "close"

\* what a device may answer to readline during discovery
DeviceReplies ==
    { <<BadByte, "x", "\n">>,
      <<"\n">>,
      <<"ID", " ", "x", "\n">>,
      <<"ID", " ", "x", " ", "FW", " ", "x", " ", "CAPS", " ", "x", "\n">>,
      <<"ID", " ", "y", " ", "FW", " ", "x", " ", "CAPS", "\n">> }

\* the ListPortInfo records the platform may report
PortInfos ==
    { [description |-> [isNone |-> FALSE, toks |-> {"usb serial device", "usb"}, upper |-> TRUE],
       hwid |-> [isNone |-> FALSE, toks |-> {"usb"}, upper |-> TRUE],
       manufacturer |-> NoneField],
      [description |-> [isNone |-> FALSE,
                        toks |-> {"standard serial over bluetooth", "bluetooth"},
                        upper |-> FALSE],
       hwid |-> [isNone |-> FALSE, toks |-> {"bluetooth"}, upper |-> TRUE],
       manufacturer |-> NoneField] }

SeqsUpToPorts == SeqsUpTo(PortInfos, MaxPorts)

\* the scan_timeout_s argument of discover_boards
ScanTimeout == "scan_timeout_s"

\* one call read_lines_for(ser, duration): what it was given and whether a line
\* that starts with "ID " was among those it returned
ReadPass(duration, lines) ==
    [duration |-> duration,
     had_id |-> \E k \in 1..Len(lines) : StartsWith(lines[k], <<"ID", " ">>)]

\* nothing written yet to the port the for loop is at, nothing read from it
NoCur == [written |-> <<>>, write_ok |-> FALSE, flushed |-> FALSE, passes |-> <<>>]

\* A scan that reads a second time whatever the first pass gave.
ReadAgainAlways(id_line, pass) == pass = 1

\* if not id_line, after the first read_lines_for
ReadAgain(id_line, pass) == id_line.none /\ pass = 1

DiscIdle ==
    /\ ports_all = <<>>
    /\ d_pc = "idle"
    /\ d_j = 1
    /\ d_boards = <<>>
    /\ d_uniq = <<>>
    /\ d_open = {}
    /\ d_lines = <<>>
    /\ d_reads = 0
    /\ d_pass = 1
    /\ d_id_line = NoLine
    /\ d_raising = FALSE
    /\ d_result = "running"
    /\ d_tried = <<>>
    /\ d_hard = {}
    /\ d_soft = {}
    /\ d_last = NoEvent
    /\ d_cur = NoCur

InitDiscover ==
    /\ ports_all \in SeqsUpToPorts
    /\ d_pc = "for"
    /\ d_j = 1
    /\ d_boards = <<>>
    /\ d_uniq = <<>>
    /\ d_open = {}
    /\ d_lines = <<>>
    /\ d_reads = 0
    /\ d_pass = 1
    /\ d_id_line = NoLine
    /\ d_raising = FALSE
    /\ d_result = "running"
    /\ d_tried = <<>>
    /\ d_hard = {}
    /\ d_soft = {}
    /\ d_last = NoEvent
    /\ d_cur = NoCur
    /\ ParseIdle
    /\ FilterIdle
    /\ BcIdle
    /\ MainIdle

\* the port the for loop is at
CurPort == ports[d_j]

\* leave the loop body for the next port (continue, or the end of the body)
D_Leave(via) ==
    IF via = "close"
    THEN d_pc' = "close" /\ UNCHANGED d_j
    ELSE d_pc' = "for" /\ d_j' = d_j + 1

\* ser = open_port(port_name, ...)
D_Open ==
    /\ d_pc = "for" /\ d_j <= Len(ports)
    /\ \E outcome \in {"ok", "error"} :
        /\ d_last' = Event("open", CurPort, outcome)
        /\ d_tried' = Append(d_tried, CurPort)
        /\ IF outcome = "ok"
           THEN /\ d_open' = d_open \cup {CurPort}
                /\ d_pc' = "reset"
                /\ UNCHANGED <<d_j, d_hard, d_result>>
           ELSE IF outcome \in DiscoverOpenExcept
           THEN /\ d_pc' = "for" /\ d_j' = d_j + 1
                /\ d_hard' = d_hard \cup {CurPort}
                /\ UNCHANGED <<d_open, d_result>>
           ELSE /\ d_pc' = "done" /\ d_result' = "raised"
                /\ d_hard' = d_hard \cup {CurPort}
                /\ UNCHANGED <<d_open, d_j>>
    /\ d_lines' = <<>> /\ d_reads' = 0 /\ d_pass' = 1 /\ d_id_line' = NoLine
    /\ d_cur' = NoCur
    /\ UNCHANGED <<ports_all, d_boards, d_uniq, d_raising, d_soft, parseVars, filterVars, bcVars, mainVars>>

\* ser.reset_input_buffer(); ser.reset_output_buffer()
D_Reset ==
    /\ d_pc = "reset"
    /\ \E outcome \in {"ok", "error"} :
        /\ d_last' = Event("reset", CurPort, outcome)
        /\ d_soft' = IF outcome = "ok" THEN d_soft ELSE d_soft \cup {CurPort}
        /\ IF outcome = "ok" \/ outcome \in DiscoverResetExcept
           THEN d_pc' = "sleep" /\ UNCHANGED d_raising
           ELSE d_pc' = "close" /\ d_raising' = TRUE
    /\ UNCHANGED <<ports_all, d_cur, d_j, d_boards, d_uniq, d_open, d_lines, d_reads, d_pass,
                   d_id_line, d_result, d_tried, d_hard, parseVars, filterVars, bcVars, mainVars>>

\* time.sleep(settle_s)
D_Settle ==
    /\ d_pc = "sleep"
    /\ d_pc' = "write"
    /\ d_last' = Event("sleep", CurPort, "ok")
    /\ UNCHANGED <<ports_all, d_cur, d_j, d_boards, d_uniq, d_open, d_lines, d_reads, d_pass,
                   d_id_line, d_raising, d_result, d_tried, d_hard, d_soft,
                   parseVars, filterVars, bcVars, mainVars>>

\* ser.write(DISCOVER_CMD.encode("utf-8")) and ser.flush(), under one try
D_WriteOrFlush(at, op, then) ==
    /\ d_pc = at
    /\ \E outcome \in {"ok", "timeout", "error"} :
        /\ d_last' = Event(op, CurPort, outcome)
        /\ IF outcome = "ok"
           THEN d_pc' = then /\ UNCHANGED <<d_j, d_hard, d_raising>>
           ELSE IF outcome \in DiscoverWriteExcept
           THEN /\ D_Leave(FinallyClause)
                /\ d_hard' = d_hard \cup {CurPort}
                /\ UNCHANGED d_raising
           ELSE /\ d_pc' = "close" /\ d_raising' = TRUE
                /\ d_hard' = d_hard \cup {CurPort}
                /\ UNCHANGED d_j
    /\ d_cur' = IF op = "write"
                THEN [d_cur EXCEPT !.written = Append(@, DiscoverCmd),
                                   !.write_ok = (d_last'.outcome = "ok")]
                ELSE [d_cur EXCEPT !.flushed = (d_last'.outcome = "ok")]
    /\ UNCHANGED <<ports_all, d_boards, d_uniq, d_open, d_lines, d_reads, d_pass,
                   d_id_line, d_result, d_tried, d_soft, parseVars, filterVars, bcVars, mainVars>>

D_Write == D_WriteOrFlush("write", "write", "flush")

D_Flush == D_WriteOrFlush("flush", "flush", "read")

\* one iteration of read_lines_for's loop: readline returns bytes, or nothing
\* (its timeout passed)
D_ReadLine ==
    /\ d_pc = "read" /\ d_reads < MaxReads
    /\ \E raw \in DeviceReplies \cup {<<>>} :
        /\ d_lines' = Collected(d_lines, raw)
        /\ d_last' = Event("readline", CurPort, "ok")
    /\ d_reads' = d_reads + 1
    /\ UNCHANGED <<ports_all, d_cur, d_pc, d_j, d_boards, d_uniq, d_open, d_pass, d_id_line,
                   d_raising, d_result, d_tried, d_hard, d_soft, parseVars, filterVars, bcVars, mainVars>>

\* read_lines_for returns (the deadline passed, or readline raised and the loop
\* broke); the caller picks the first line that starts with "ID " and, having
\* found none in the first pass, reads once more
D_ReadReturn ==
    /\ d_pc = "read"
    /\ \E how \in ReadLoopEnds(d_reads) :
        /\ d_last' = Event("read_lines_for", CurPort, how)
        /\ d_soft' = IF how = "error" THEN d_soft \cup {CurPort} ELSE d_soft
    /\ d_id_line' = FirstIdLine(d_lines)
    /\ IF ReadAgain(d_id_line', d_pass)
       THEN d_pass' = 2 /\ d_lines' = <<>> /\ d_reads' = 0 /\ d_pc' = "read"
       ELSE d_pc' = "parse" /\ UNCHANGED <<d_pass, d_lines, d_reads>>
    /\ d_cur' = [d_cur EXCEPT !.passes = Append(@, ReadPass(ScanTimeout, d_lines))]
    /\ UNCHANGED <<ports_all, d_j, d_boards, d_uniq, d_open, d_raising, d_result,
                   d_tried, d_hard, parseVars, filterVars, bcVars, mainVars>>

\* if id_line: parsed = parse_id_line(id_line); if parsed: boards.append(Board(...))
D_Parse ==
    /\ d_pc = "parse"
    /\ LET got == IF d_id_line.none THEN None ELSE parse_id_line(d_id_line.text)
       IN  IF got.none
           THEN d_hard' = d_hard \cup {CurPort} /\ UNCHANGED d_boards
           ELSE /\ d_boards' = Append(d_boards,
                                      Board(CurPort, got.board_id, got.fw, got.caps,
                                            OrEmpty(ports_all[CurPort].description)))
                /\ UNCHANGED d_hard
    /\ D_Leave(FinallyClause)
    /\ d_last' = Event("parse", CurPort, "ok")
    /\ UNCHANGED <<ports_all, d_cur, d_uniq, d_open, d_lines, d_reads, d_pass, d_id_line,
                   d_raising, d_result, d_tried, d_soft, parseVars, filterVars, bcVars, mainVars>>

\* finally: ser.close().  The locals of the loop body (lines, id_line) are not
\* read again before the next port assigns them: they are cleared here.
D_Close ==
    /\ d_pc = "close"
    /\ \E outcome \in {"ok", "error"} :
        /\ d_last' = Event("close", CurPort, outcome)
        /\ d_soft' = IF outcome = "ok" THEN d_soft ELSE d_soft \cup {CurPort}
        /\ d_open' = d_open \ {CurPort}
        /\ IF d_raising \/ (outcome # "ok" /\ outcome \notin DiscoverCloseExcept)
           THEN d_pc' = "done" /\ d_result' = "raised" /\ UNCHANGED d_j
           ELSE d_pc' = "for" /\ d_j' = d_j + 1 /\ UNCHANGED d_result
    /\ d_cur' = NoCur
    /\ d_lines' = <<>> /\ d_reads' = 0 /\ d_pass' = 1 /\ d_id_line' = NoLine
    /\ UNCHANGED <<ports_all, d_boards, d_uniq, d_raising, d_tried, d_hard,
                   parseVars, filterVars, bcVars, mainVars>>

\* the de-dupe loop and return uniq
D_Return ==
    /\ d_pc = "for" /\ d_j > Len(ports)
    /\ d_uniq' = Dedupe(d_boards)
    /\ d_pc' = "done"
    /\ d_result' = "returned"
    /\ d_last' = Event("return", 0, "ok")
    /\ UNCHANGED <<ports_all, d_cur, d_j, d_boards, d_open, d_lines, d_reads, d_pass, d_id_line,
                   d_raising, d_tried, d_hard, d_soft, parseVars, filterVars, bcVars, mainVars>>

NextDiscover ==
    \/ D_Open
    \/ D_Reset
    \/ D_Settle
    \/ D_Write
    \/ D_Flush
    \/ D_ReadLine
    \/ D_ReadReturn
    \/ D_Parse
    \/ D_Close
    \/ D_Return

SpecDiscover == InitDiscover /\ [][NextDiscover]_vars

(***************************************************************************)
(* broadcast_command                                                       *)
(*                                                                         *)
(* The transport of the k-th board of the list is called k: board k's port *)
(* is k.  sers is the dict of the code, kept as its items in insertion     *)
(* order: assigning to a key that is present replaces the value in place.  *)
(***************************************************************************)
BoardIds == {"B1", "B2"}

BoardLists ==
    { [k \in 1..Len(ids) |-> [board_id |-> ids[k], port |-> k]] :
        ids \in SeqsUpTo(BoardIds, MaxBoards) }

AckTraceLen == 8

\* what a device may answer to readline after a command
AckReplies == { <<"x", "\n">>, <<"\n">> }

DictHas(d, key) == \E k \in 1..Len(d) : d[k].bid = key

\* d[key] = val
DictSet(d, key, val) ==
    IF DictHas(d, key)
    THEN [k \in 1..Len(d) |-> IF d[k].bid = key THEN [bid |-> key, ser |-> val] ELSE d[k]]
    ELSE Append(d, [bid |-> key, ser |-> val])

\* the transports d[key] refers to (none or one)
DictGet(d, key) == {d[k].ser : k \in {k \in 1..Len(d) : d[k].bid = key}}

\* lines[-n:]
LastN(lines, n) ==
    IF Len(lines) <= n THEN lines ELSE SubSeq(lines, Len(lines) - n + 1, Len(lines))

Step(op, port, outcome, warned, shown) ==
    [op |-> op, port |-> port, outcome |-> outcome, warned |-> warned, shown |-> shown]

Warning(kind, bid, port) == [kind |-> kind, bid |-> bid, port |-> port]

Called(ops, ser, op) == [ops EXCEPT ![ser][op] = @ + 1]

\* except clauses of broadcast_command
BroadcastOpenExcept == ExceptException
BroadcastClearExcept == ExceptException
\* A write handler that lacks the "except Exception" clause.
BroadcastWriteExceptTimeoutOnly == ExceptSerialTimeout
BroadcastWriteExcept == ExceptSerialTimeout \cup ExceptException
BroadcastFlushExcept == ExceptException
BroadcastCloseExcept == ExceptException

\* the cmd strings handed to broadcast_command: one as main builds it, one that
\* ends with a newline, one with a blank before it and a tab inside
BroadcastCommands ==
    { <<"sync", " ", "stop", " ", "n">>,
      <<"sync", " ", "stop", " ", "n", "\n">>,
      <<" ", "sync", "\t", "stop">> }

\* A payload without the line terminator.
PayloadUnframed(cmd) == Strip(cmd)

\* (cmd.strip() + "\n").encode("utf-8")
Payload(cmd) == Strip(cmd) \o <<"\n">>

\* An open loop that is left after its first board.
OpenLoopLeftEarly(i, bs) == i > 1 \/ i > Len(bs)

\* for b in boards: the loop has gone through the list
OpenLoopDone(i, bs) == i > Len(bs)

\* A call that goes on to the write phase whatever the open loop left in sers.
NeverEmpty(d) == FALSE

\* if not sers
NotSers(d) == d = <<>>

InitBroadcast ==
    /\ b_boards \in BoardLists
    /\ b_pc = "open"
    /\ b_i = 1
    /\ sers = <<>>
    /\ b_lines = <<>>
    /\ b_reads = 0
    /\ b_raising = FALSE
    /\ b_result = "running"
    /\ b_opened = {}
    /\ b_closed = {}
    /\ b_ops = [k \in 1..Len(b_boards) |-> NoOps]
    /\ b_warn = {}
    /\ b_report = FALSE
    /\ b_slept = <<>>
    /\ b_last = NoStep
    /\ b_cmd \in BroadcastCommands
    /\ b_sent = [k \in 1..Len(b_boards) |-> <<>>]
    /\ ParseIdle
    /\ FilterIdle
    /\ DiscIdle
    /\ MainIdle

\* an exception no handler caught leaves the try body for the finally clause
B_Raise ==
    /\ b_raising' = TRUE
    /\ b_pc' = "close"
    /\ b_i' = 1

\* sers[b.board_id] = open_port(b.port, ...).  When the key is present already,
\* the transport it held loses its last reference: the runtime may finalise it
\* (which closes it) at once, later, or never.
B_Open ==
    /\ b_pc = "open" /\ ~OpenLoopDone(b_i, b_boards)
    /\ LET b == b_boards[b_i]
           dropped == DictGet(sers, b.board_id)
       IN  \E outcome \in {"ok", "error"}, finalised \in BOOLEAN :
             /\ finalised => (outcome = "ok" /\ dropped # {})
             /\ b_ops' = Called(b_ops, b.port, "open")
             /\ IF outcome = "ok"
                THEN /\ sers' = DictSet(sers, b.board_id, b.port)
                     /\ b_opened' = b_opened \cup {b.port}
                     /\ b_closed' = IF finalised THEN b_closed \cup dropped ELSE b_closed
                     /\ b_last' = Step("open", b.port, outcome, {}, <<>>)
                     /\ b_i' = b_i + 1
                     /\ UNCHANGED <<b_pc, b_warn, b_raising>>
                ELSE IF outcome \in BroadcastOpenExcept
                THEN /\ b_warn' = b_warn \cup {Warning("open", b.board_id, b.port)}
                     /\ b_last' = Step("open", b.port, outcome,
                                       {Warning("open", b.board_id, b.port)}, <<>>)
                     /\ b_i' = b_i + 1
                     /\ UNCHANGED <<b_pc, sers, b_opened, b_closed, b_raising>>
                ELSE /\ B_Raise
                     /\ b_last' = Step("open", b.port, outcome, {}, <<>>)
                     /\ UNCHANGED <<sers, b_opened, b_closed, b_warn>>
    /\ UNCHANGED <<b_boards, b_cmd, b_sent, b_lines, b_reads, b_result, b_report, b_slept,
                   parseVars, filterVars, discVars, mainVars>>

\* if not sers: print("No ports could be opened."); return
\* else: time.sleep(0.03)
B_OpensDone ==
    /\ b_pc = "open" /\ OpenLoopDone(b_i, b_boards)
    /\ IF NotSers(sers)
       THEN /\ b_report' = TRUE
            /\ b_pc' = "close"
            /\ b_last' = Step("report", 0, "ok", {}, <<>>)
            /\ UNCHANGED b_slept
       ELSE /\ b_slept' = Append(b_slept, "settle")
            /\ b_pc' = "clear"
            /\ b_last' = Step("sleep", 0, "ok", {}, <<>>)
            /\ UNCHANGED b_report
    /\ b_i' = 1
    /\ UNCHANGED <<b_boards, b_cmd, b_sent, sers, b_lines, b_reads, b_raising, b_result, b_opened,
                   b_closed, b_ops, b_warn, parseVars, filterVars, discVars, mainVars>>

\* ser.reset_input_buffer() in the write loop
B_Clear ==
    /\ b_pc = "clear" /\ b_i <= Len(sers)
    /\ \E outcome \in {"ok", "error"} :
        /\ b_last' = Step("clear", sers[b_i].ser, outcome, {}, <<>>)
        /\ IF outcome = "ok" \/ outcome \in BroadcastClearExcept
           THEN b_pc' = "write" /\ UNCHANGED <<b_i, b_raising>>
           ELSE B_Raise
    /\ b_ops' = Called(b_ops, sers[b_i].ser, "reset")
    /\ UNCHANGED <<b_boards, b_cmd, b_sent, sers, b_lines, b_reads, b_result, b_opened, b_closed,
                   b_warn, b_report, b_slept, parseVars, filterVars, discVars, mainVars>>

\* ser.write(payload), where payload = (cmd.strip() + "\n").encode("utf-8")
B_Write ==
    /\ b_pc = "write"
    /\ LET e == sers[b_i]
       IN  \E outcome \in {"ok", "timeout", "error"} :
             LET said == IF outcome = "ok" THEN {}
                         ELSE {Warning("write_" \o outcome, e.bid, e.ser)}
             IN  IF outcome = "ok" \/ outcome \in BroadcastWriteExcept
                 THEN /\ b_warn' = b_warn \cup said
                      /\ b_last' = Step("write", e.ser, outcome, said, <<>>)
                      /\ b_pc' = "clear" /\ b_i' = b_i + 1
                      /\ UNCHANGED b_raising
                 ELSE /\ B_Raise
                      /\ b_last' = Step("write", e.ser, outcome, {}, <<>>)
                      /\ UNCHANGED b_warn
    /\ b_ops' = Called(b_ops, sers[b_i].ser, "write")
    /\ b_sent' = [b_sent EXCEPT ![sers[b_i].ser] = Append(@, Payload(b_cmd))]
    /\ UNCHANGED <<b_boards, b_cmd, sers, b_lines, b_reads, b_result, b_opened, b_closed,
                   b_report, b_slept, parseVars, filterVars, discVars, mainVars>>

\* the write loop has gone through sers
B_WritesDone ==
    /\ b_pc = "clear" /\ b_i > Len(sers)
    /\ b_pc' = "flush" /\ b_i' = 1
    /\ b_last' = Step("none", 0, "ok", {}, <<>>)
    /\ UNCHANGED <<b_boards, b_cmd, b_sent, sers, b_lines, b_reads, b_raising, b_result, b_opened,
                   b_closed, b_ops, b_warn, b_report, b_slept,
                   parseVars, filterVars, discVars, mainVars>>

\* ser.flush()
B_Flush ==
    /\ b_pc = "flush" /\ b_i <= Len(sers)
    /\ \E outcome \in {"ok", "error"} :
        /\ b_last' = Step("flush", sers[b_i].ser, outcome, {}, <<>>)
        /\ IF outcome = "ok" \/ outcome \in BroadcastFlushExcept
           THEN b_i' = b_i + 1 /\ UNCHANGED <<b_pc, b_raising>>
           ELSE B_Raise
    /\ b_ops' = Called(b_ops, sers[b_i].ser, "flush")
    /\ UNCHANGED <<b_boards, b_cmd, b_sent, sers, b_lines, b_reads, b_result, b_opened, b_closed,
                   b_warn, b_report, b_slept, parseVars, filterVars, discVars, mainVars>>

\* the flush loop has gone through sers; time.sleep(0.06)
B_AckWait ==
    /\ b_pc = "flush" /\ b_i > Len(sers)
    /\ b_slept' = Append(b_slept, "ack")
    /\ b_pc' = "read" /\ b_i' = 1
    /\ b_lines' = <<>> /\ b_reads' = 0
    /\ b_last' = Step("sleep", 0, "ok", {}, <<>>)
    /\ UNCHANGED <<b_boards, b_cmd, b_sent, sers, b_raising, b_result, b_opened, b_closed, b_ops,
                   b_warn, b_report, parseVars, filterVars, discVars, mainVars>>

\* one iteration of read_lines_for's loop on the transport of the read loop
B_ReadLine ==
    /\ b_pc = "read" /\ b_i <= Len(sers) /\ b_reads < MaxReads
    /\ \E raw \in AckReplies \cup {<<>>} :
        /\ b_lines' = Collected(b_lines, raw)
        /\ b_last' = Step("readline", sers[b_i].ser, "ok", {}, <<>>)
    /\ b_reads' = b_reads + 1
    /\ UNCHANGED <<b_boards, b_cmd, b_sent, b_pc, b_i, sers, b_raising, b_result, b_opened, b_closed,
                   b_ops, b_warn, b_report, b_slept, parseVars, filterVars, discVars, mainVars>>

\* read_lines_for returns (the deadline passed, or readline raised and the loop
\* broke); if lines: print the last eight
B_ReadReturn ==
    /\ b_pc = "read" /\ b_i <= Len(sers)
    /\ \E how \in ReadLoopEnds(b_reads) :
        b_last' = Step("read_lines_for", sers[b_i].ser, how, {},
                       LastN(b_lines, AckTraceLen))
    /\ b_ops' = Called(b_ops, sers[b_i].ser, "read")
    /\ b_i' = b_i + 1
    /\ b_lines' = <<>> /\ b_reads' = 0
    /\ UNCHANGED <<b_boards, b_cmd, b_sent, b_pc, sers, b_raising, b_result, b_opened, b_closed,
                   b_warn, b_report, b_slept, parseVars, filterVars, discVars, mainVars>>

\* the read loop has gone through sers: on to the finally clause
B_ReadsDone ==
    /\ b_pc = "read" /\ b_i > Len(sers)
    /\ b_pc' = "close" /\ b_i' = 1
    /\ b_last' = Step("none", 0, "ok", {}, <<>>)
    /\ UNCHANGED <<b_boards, b_cmd, b_sent, sers, b_lines, b_reads, b_raising, b_result, b_opened,
                   b_closed, b_ops, b_warn, b_report, b_slept,
                   parseVars, filterVars, discVars, mainVars>>

\* finally: for ser in sers.values(): ser.close()
B_Close ==
    /\ b_pc = "close" /\ b_i <= Len(sers)
    /\ \E outcome \in {"ok", "error"} :
        /\ b_last' = Step("close", sers[b_i].ser, outcome, {}, <<>>)
        /\ IF outcome = "ok" \/ outcome \in BroadcastCloseExcept
           THEN b_i' = b_i + 1 /\ UNCHANGED <<b_pc, b_result>>
           ELSE b_pc' = "done" /\ b_result' = "raised" /\ UNCHANGED b_i
    /\ b_closed' = b_closed \cup {sers[b_i].ser}
    /\ b_ops' = Called(b_ops, sers[b_i].ser, "close")
    /\ UNCHANGED <<b_boards, b_cmd, b_sent, sers, b_lines, b_reads, b_raising, b_opened, b_warn,
                   b_report, b_slept, parseVars, filterVars, discVars, mainVars>>

\* the finally clause is through: return, or let the exception go on
B_Return ==
    /\ b_pc = "close" /\ b_i > Len(sers)
    /\ b_pc' = "done"
    /\ b_result' = IF b_raising THEN "raised" ELSE "returned"
    /\ b_last' = Step("return", 0, "ok", {}, <<>>)
    /\ UNCHANGED <<b_boards, b_cmd, b_sent, b_i, sers, b_lines, b_reads, b_raising, b_opened,
                   b_closed, b_ops, b_warn, b_report, b_slept,
                   parseVars, filterVars, discVars, mainVars>>

NextBroadcast ==
    \/ B_Open
    \/ B_OpensDone
    \/ B_Clear
    \/ B_Write
    \/ B_WritesDone
    \/ B_Flush
    \/ B_AckWait
    \/ B_ReadLine
    \/ B_ReadReturn
    \/ B_ReadsDone
    \/ B_Close
    \/ B_Return

SpecBroadcast == InitBroadcast /\ [][NextBroadcast]_vars

(***************************************************************************)
(* A run of either function under the scheduling of the program: it is one *)
(* thread, every transport operation returns or fails within its timeout   *)
(* and time.sleep returns, so a step that can be taken is taken.           *)
(***************************************************************************)
InitRun == InitDiscover \/ InitBroadcast

NextRun == NextDiscover \/ NextBroadcast

SpecTerminates == InitRun /\ [][NextRun]_vars /\ WF_vars(NextRun)

(***************************************************************************)
(* main                                                                    *)
(*                                                                         *)
(* args is the outcome of parse_args: the sub-command and, for a sync      *)
(* command, the --only option (NoOnly when it is absent, Only(ids) with a  *)
(* sequence of boardIDs, possibly empty, when it is given: nargs="*").     *)
(* The number options of a sync command are the atom "n" of the command    *)
(* text.                                                                   *)
(* discover_boards and broadcast_command are calls: the first hands back a *)
(* list of boards with pairwise distinct boardIDs, the second is recorded. *)
(***************************************************************************)
SyncCommands == {"sync-waveall", "sync-wave", "sync-row0", "sync-stop"}

SubCommands == {"ports", "list"} \cup SyncCommands

\* boardIDs a user may name: those of the boards and one no board has
OnlyIds == BoardIds \cup {"B9"}

\* the number of boardIDs after --only
MaxOnly == 2

ArgsSet ==
    { [cmd |-> c, only |-> NoOnly] : c \in SubCommands }
    \cup { [cmd |-> c, only |-> Only(o)] : c \in SyncCommands,
                                              o \in SeqsUpTo(OnlyIds, MaxOnly) }

\* what discover_boards may return: boards with pairwise distinct boardIDs
DiscoverResults ==
    { bs \in BoardLists :
        \A i, j \in 1..Len(bs) : bs[i].board_id = bs[j].board_id => i = j }

\* the f-strings of main
CommandText(c) ==
    CASE c = "sync-waveall" -> <<"sync", " ", "waveall", " ", "n", " ", "n", " ", "n">>
      [] c = "sync-wave"    -> <<"sync", " ", "wave", " ", "n", " ", "n", " ", "n", " ", "n">>
      [] c = "sync-row0"    -> <<"sync", " ", "row0", " ", "n", " ", "n">>
      [] c = "sync-stop"    -> <<"sync", " ", "stop", " ", "n">>

\* bool(getattr(args, "only", None)): None and the empty list are false
OnlyIsTrue(only) == only.given /\ only.ids # <<>>

RECURSIVE KeepWantedFrom(_, _, _)
KeepWantedFrom(bs, want, k) ==
    IF k > Len(bs) THEN <<>>
    ELSE (IF bs[k].board_id \in want THEN <<bs[k]>> ELSE <<>>)
         \o KeepWantedFrom(bs, want, k + 1)

\* [b for b in boards if b.board_id in want]
KeepWanted(bs, want) == KeepWantedFrom(bs, want, 1)

BroadcastCall(bs, cmd) == [boards |-> bs, cmd |-> cmd]

InitMain ==
    /\ m_args \in ArgsSet
    /\ m_pc = "start"
    /\ m_boards = <<>>
    /\ m_exit = Pending
    /\ m_found = <<>>
    /\ m_calls = <<>>
    /\ ParseIdle
    /\ FilterIdle
    /\ DiscIdle
    /\ BcIdle

ExitCode(code) == [code |-> code]

M_ReturnCode(code) == m_exit' = ExitCode(code) /\ m_pc' = "done"

\* if args.cmd == "ports": list_all_ports(); return 0
M_Ports ==
    /\ m_pc = "start" /\ m_args.cmd = "ports"
    /\ M_ReturnCode(0)
    /\ UNCHANGED <<m_args, m_boards, m_found, m_calls,
                   parseVars, filterVars, discVars, bcVars>>

\* boards = discover_boards(); if not boards: ...; return 2
M_Discover ==
    /\ m_pc = "start" /\ m_args.cmd # "ports"
    /\ \E found \in DiscoverResults :
        /\ m_found' = found
        /\ m_boards' = found
        /\ IF found = <<>>
           THEN M_ReturnCode(2)
           ELSE m_pc' = "list" /\ UNCHANGED m_exit
    /\ UNCHANGED <<m_args, m_calls, parseVars, filterVars, discVars, bcVars>>

\* if args.cmd == "list": print the boards; return 0
M_List ==
    /\ m_pc = "list" /\ m_args.cmd = "list"
    /\ M_ReturnCode(0)
    /\ UNCHANGED <<m_args, m_boards, m_found, m_calls,
                   parseVars, filterVars, discVars, bcVars>>

\* if getattr(args, "only", None): filter; if not boards: ...; return 2
M_Only ==
    /\ m_pc = "list" /\ m_args.cmd # "list"
    /\ IF OnlyIsTrue(m_args.only)
       THEN LET want == {m_args.only.ids[k] : k \in 1..Len(m_args.only.ids)}
            IN  /\ m_boards' = KeepWanted(m_boards, want)
                /\ IF m_boards' = <<>>
                   THEN M_ReturnCode(2)
                   ELSE m_pc' = "command" /\ UNCHANGED m_exit
       ELSE m_pc' = "command" /\ UNCHANGED <<m_boards, m_exit>>
    /\ UNCHANGED <<m_args, m_found, m_calls, parseVars, filterVars, discVars, bcVars>>

\* the if/elif chain that builds cmd, broadcast_command(boards, cmd), return 0
M_Broadcast ==
    /\ m_pc = "command"
    /\ IF m_args.cmd \in SyncCommands
       THEN /\ m_calls' = Append(m_calls, BroadcastCall(m_boards, CommandText(m_args.cmd)))
            /\ M_ReturnCode(0)
       ELSE /\ M_ReturnCode(2)
            /\ UNCHANGED m_calls
    /\ UNCHANGED <<m_args, m_boards, m_found, parseVars, filterVars, discVars, bcVars>>

NextMain ==
    \/ M_Ports
    \/ M_Discover
    \/ M_List
    \/ M_Only
    \/ M_Broadcast

SpecMain == InitMain /\ [][NextMain]_vars

(***************************************************************************)
(* Specifications of the two pure functions: the input is drawn in the     *)
(* initial state and one action applies the function.                      *)
(***************************************************************************)
LineAtoms == Words \cup {" ", "\t"}

\* "ID <id> FW <fw> CAPS <C>"
FormatIdLine(id, fw, caps) ==
    <<"ID", " ">> \o id \o <<" ", "FW", " ">> \o fw \o <<" ", "CAPS", " ">> \o caps

InitParse ==
    /\ \E n \in 0..MaxLineLen : line \in [1..n -> LineAtoms]
    /\ parsed = Pending
    /\ rt = NoRt
    /\ FilterIdle
    /\ DiscIdle
    /\ BcIdle
    /\ MainIdle

InitRoundTrip ==
    /\ rt \in [none : {FALSE},
               id : SeqsUpTo(Words, MaxTokLen),
               fw : SeqsUpTo(Words, MaxTokLen),
               caps : SeqsUpTo(LineAtoms, MaxCapsLen)]
    /\ line = FormatIdLine(rt.id, rt.fw, rt.caps)
    /\ parsed = Pending
    /\ FilterIdle
    /\ DiscIdle
    /\ BcIdle
    /\ MainIdle

ParseLine ==
    /\ parsed = Pending
    /\ parsed' = parse_id_line(line)
    /\ UNCHANGED <<line, rt, filterVars, discVars, bcVars, mainVars>>

InitFilter ==
    /\ cand \in [description : Fields, hwid : Fields, manufacturer : Fields]
    /\ verdict = Pending
    /\ ParseIdle
    /\ DiscIdle
    /\ BcIdle
    /\ MainIdle

ApplyFilter ==
    /\ verdict = Pending
    /\ verdict' = [pending |-> FALSE, accept |-> is_usb_serial_port(cand)]
    /\ UNCHANGED <<cand, parseVars, discVars, bcVars, mainVars>>

NextParse == ParseLine

NextFilter == ApplyFilter

SpecParse == InitParse /\ [][NextParse]_vars

SpecRoundTrip == InitRoundTrip /\ [][NextParse]_vars

SpecFilter == InitFilter /\ [][NextFilter]_vars

(***************************************************************************)
(* Claims about parse_id_line                                              *)
(***************************************************************************)
RECURSIVE SingleSpaced(_)
\* the tokens written one after the other with exactly one space between two
SingleSpaced(toks) ==
    IF Len(toks) = 0 THEN <<>>
    ELSE IF Len(toks) = 1 THEN toks[1]
    ELSE SingleSpaced(SubSeq(toks, 1, Len(toks) - 1)) \o <<" ">> \o toks[Len(toks)]

\* a text with every run of whitespace turned into a single space
Normalized(text) == SingleSpaced(Split(text))

HasToken(toks, tok) == \E i \in 1..Len(toks) : toks[i] = tok

\* the 1-based place of the first token equal to tok
FirstPlace(toks, tok) ==
    CHOOSE i \in 1..Len(toks) : toks[i] = tok /\ \A j \in 1..(i - 1) : toks[j] # tok

BeginsWithIdSpace(text) == Len(text) >= 2 /\ text[1] = "ID" /\ text[2] = " "

RoundTripInput == rt.none = FALSE /\ parsed # Pending

ReservedFree ==
    /\ rt.id # <<>> /\ rt.id # TokFW /\ rt.id # TokCAPS
    /\ rt.fw # <<>> /\ rt.fw # TokCAPS

\* C8 as stated: for any boardID and firmwareVersion without whitespace (taken
\* here to be non-empty) and any capabilities text C, parsing
\* "ID <id> FW <fw> CAPS <C>" returns (id, fw, C with its whitespace runs
\* normalized to single spaces).
C8_RoundTripAnyTokens ==
    (RoundTripInput /\ rt.id # <<>> /\ rt.fw # <<>>)
        => parsed = Identity(rt.id, rt.fw, Normalized(rt.caps))

\* C8 amended: the round trip holds when the boardID is non-empty and is neither
\* of the literal tokens FW and CAPS, and the firmwareVersion is non-empty and is
\* not the literal token CAPS.
C8_RoundTripReservedFree ==
    (RoundTripInput /\ ReservedFree)
        => parsed = Identity(rt.id, rt.fw, Normalized(rt.caps))

\* C8 witness: a line whose capabilities hold two tokens separated by more than
\* a single space has been formatted and parsed back.
C8_Witness ==
    /\ RoundTripInput /\ ReservedFree
    /\ Len(Split(rt.caps)) = 2
    /\ rt.caps # Normalized(rt.caps)
    /\ parsed.none = FALSE

LineRejected ==
    LET toks == Split(line)
    IN  \/ ~BeginsWithIdSpace(line)
        \/ ~HasToken(toks, TokFW)
        \/ ~HasToken(toks, TokCAPS)
        \/ FirstPlace(toks, TokFW) = Len(toks)

\* C9: parse_id_line returns none for a line that does not begin with "ID ", has
\* no FW token, has no CAPS token, or whose (first) FW token is the last token;
\* for every other line it returns the second token, the token after the first
\* FW, and the tokens after the first CAPS joined by single spaces.
C9_ParseContract ==
    (rt.none /\ parsed # Pending) =>
        LET toks == Split(line)
        IN  IF LineRejected THEN parsed = None
            ELSE parsed =
                   Identity(toks[2],
                            toks[FirstPlace(toks, TokFW) + 1],
                            SingleSpaced(SubSeq(toks, FirstPlace(toks, TokCAPS) + 1,
                                                Len(toks))))

\* C9 witness: an accepted line with FW occurring twice and capabilities present.
C9_Witness ==
    /\ rt.none /\ parsed # Pending
    /\ parsed.none = FALSE
    /\ parsed.caps # <<>>
    /\ Cardinality({i \in 1..Len(Split(line)) : Split(line)[i] = TokFW}) = 2

(***************************************************************************)
(* Claims about is_usb_serial_port                                         *)
(***************************************************************************)
\* the field contains the needle when case is ignored
Contains(f, needle) == ~f.isNone /\ needle \in f.toks

AnyField(p, needle) ==
    \/ Contains(p.description, needle)
    \/ Contains(p.hwid, needle)
    \/ Contains(p.manufacturer, needle)

AcceptRule1(p) == AnyField(p, "teensy")
AcceptRule2(p) == Contains(p.description, "usb serial device")
AcceptRule3(p) == Contains(p.description, "usb") /\ ~Contains(p.description, "bluetooth")
AcceptRule4(p) == Contains(p.hwid, "usb") /\ ~Contains(p.hwid, "bluetooth")
RejectRule5(p) == AnyField(p, "bluetooth")
RejectRule6(p) == AnyField(p, "modem")
RejectRule7(p) == Contains(p.description, "standard serial over bluetooth")

\* the decision list of the specification: the first matching rule wins
DecisionList(p) ==
    CASE AcceptRule1(p) -> TRUE
      [] ~AcceptRule1(p) /\ AcceptRule2(p) -> TRUE
      [] ~AcceptRule1(p) /\ ~AcceptRule2(p) /\ AcceptRule3(p) -> TRUE
      [] ~AcceptRule1(p) /\ ~AcceptRule2(p) /\ ~AcceptRule3(p) /\ AcceptRule4(p) -> TRUE
      [] OTHER -> IF RejectRule5(p) THEN FALSE
                  ELSE IF RejectRule6(p) THEN FALSE
                  ELSE IF RejectRule7(p) THEN FALSE
                  ELSE FALSE

MatchingNeedles(p) == {n \in Needles : AnyField(p, n)}

\* C10: is_usb_serial_port answers as the decision list does; it accepts only
\* through one of the four accept rules, and it rejects a candidate whose only
\* matching needles are "bluetooth" or "modem".
C10_FilterMatchesDecisionList ==
    verdict # Pending =>
        /\ verdict.accept = DecisionList(cand)
        /\ verdict.accept =>
              (AcceptRule1(cand) \/ AcceptRule2(cand) \/ AcceptRule3(cand) \/ AcceptRule4(cand))
        /\ (MatchingNeedles(cand) # {} /\ MatchingNeedles(cand) \subseteq {"bluetooth", "modem"})
              => ~verdict.accept

\* C10 witness: a candidate accepted through rule 4 alone, on an upper-case
\* hardware id, while its description mentions bluetooth.
C10_Witness ==
    /\ verdict # Pending
    /\ verdict.accept
    /\ cand.hwid.upper /\ "usb" \in cand.hwid.toks
    /\ Contains(cand.description, "bluetooth")
    /\ ~AcceptRule1(cand) /\ ~AcceptRule2(cand) /\ ~AcceptRule3(cand)

(***************************************************************************)
(* Claims about discover_boards                                            *)
(***************************************************************************)
BoardsAt(bs, p) == {k \in 1..Len(bs) : bs[k].port = p}

\* C5: the returned list holds no two boards with the same boardID; of the
\* candidates that answered with one boardID the first in enumeration order is
\* the one kept, and the returned boards are in the order of their candidates.
C5_DedupeKeepsFirstInOrder ==
    d_result = "returned" =>
        /\ \A i, j \in 1..Len(d_uniq) :
              i < j => /\ d_uniq[i].board_id # d_uniq[j].board_id
                       /\ d_uniq[i].port < d_uniq[j].port
        /\ \A i \in 1..Len(d_uniq) :
              /\ \E k \in 1..Len(d_boards) : d_boards[k] = d_uniq[i]
              /\ \A k \in 1..Len(d_boards) :
                    d_boards[k].board_id = d_uniq[i].board_id
                        => d_uniq[i].port <= d_boards[k].port
        /\ \A k \in 1..Len(d_boards) :
              \E i \in 1..Len(d_uniq) : d_uniq[i].board_id = d_boards[k].board_id

\* C5 witness: three candidates answered, the first and the third with the same
\* boardID, and two boards were returned.
C5_Witness ==
    /\ d_result = "returned"
    /\ Len(d_boards) = 3
    /\ d_boards[1].board_id = d_boards[3].board_id
    /\ Len(d_uniq) = 2

ScanCompleted ==
    /\ d_result # "raised"
    /\ d_pc = "done" =>
          /\ d_tried = ports
          /\ \A k \in 1..Len(d_boards) :
                \E i \in 1..Len(d_uniq) : d_uniq[i].board_id = d_boards[k].board_id

\* C6 as stated: no failure at a candidate aborts the scan, and a candidate at
\* which any failure happened (open, buffer reset, write, flush, read, no or
\* malformed identity line, close) contributes zero boards.
C6_AnyFailureYieldsNoBoard ==
    /\ ScanCompleted
    /\ d_pc = "done" => \A p \in d_hard \cup d_soft : BoardsAt(d_boards, p) = {}

\* C6 amended: no failure at a candidate aborts the scan: every in-scope
\* candidate is still tried and the boards identified are returned (up to the
\* de-duplication).  A candidate whose open, write or flush failed, or that gave
\* no identity line or a malformed one, contributes zero boards.
C6_FailuresNeverAbortScan ==
    /\ ScanCompleted
    /\ d_pc = "done" => \A p \in d_hard : BoardsAt(d_boards, p) = {}

\* C6 witness: the scan returned a board of a candidate that comes after a
\* candidate that failed, and some buffer reset, readline or close failed too.
C6_Witness ==
    /\ d_result = "returned"
    /\ d_soft # {}
    /\ \E i \in 1..Len(d_uniq) : \E p \in d_hard : p < d_uniq[i].port

\* C7: at most one transport is open at any moment of the scan, none is open
\* when the loop moves to the next candidate, and none when the scan returns.
C7_OneTransportAtATime ==
    /\ Cardinality(d_open) <= 1
    /\ d_pc \in {"for", "done"} => d_open = {}

\* C7 witness: a candidate's transport has just been opened after an earlier
\* candidate failed and another one yielded a board.
C7_Witness ==
    /\ d_last.op = "open" /\ d_last.outcome = "ok"
    /\ d_open = {d_last.port}
    /\ d_hard # {}
    /\ d_boards # <<>>

\* the read passes made so far on the port the for loop is at
ReadPasses == d_cur.passes

\* the reading of the port the for loop is at is over
ReadingOver == d_pc = "parse" \/ d_last.op = "parse"

\* C13: on a candidate whose challenge was written and flushed, read_lines_for is
\* called a second time exactly when the lines of the first call hold none that
\* starts with "ID "; it is never called a third time, and both calls are given
\* the same duration, scan_timeout_s.  No candidate is read without that write.
C13_SecondPassIffNoIdLine ==
    /\ Len(ReadPasses) <= 2
    /\ \A k \in 1..Len(ReadPasses) : ReadPasses[k].duration = ReadPasses[1].duration
    /\ Len(ReadPasses) = 2 => ~ReadPasses[1].had_id
    /\ ReadPasses # <<>> => d_cur.write_ok /\ d_cur.flushed
    /\ ReadingOver =>
          /\ Len(ReadPasses) >= 1
          /\ ~ReadPasses[1].had_id => Len(ReadPasses) = 2

\* C13 witness: the reading of a candidate is over after two passes, the second
\* of which gave a line that starts with "ID ", and the reading of an earlier
\* candidate was over after one.
C13_Witness ==
    /\ d_pc = "parse"
    /\ Len(ReadPasses) = 2
    /\ ReadPasses[2].had_id
    /\ d_boards # <<>>

\* positions, in the lines of the pass read last, of the lines that start with
\* "ID "
IdPlaces == {k \in 1..Len(d_lines) : BeginsWithIdSpace(d_lines[k])}

FirstIdPlace == CHOOSE k \in IdPlaces : \A h \in IdPlaces : k <= h

\* C14: a candidate yields a Board exactly when the first line that starts with
\* "ID " -- of the lines of the first pass, or of the second pass when the first
\* has none -- is one parse_id_line accepts; the Board carries the candidate's
\* port and description and the boardID, firmware version and capabilities
\* parsed.  When that line is malformed the candidate yields no board and
\* nothing is raised, whatever the lines after it.
C14_BoardIffFirstIdLineParses ==
    d_last.op = "parse" =>
        LET here == BoardsAt(d_boards, d_last.port)
        IN  /\ d_result # "raised" /\ ~d_raising
            /\ Len(ReadPasses) = 2 => ~ReadPasses[1].had_id
            /\ ReadPasses[Len(ReadPasses)].had_id <=> IdPlaces # {}
            /\ IF IdPlaces = {} THEN here = {}
               ELSE LET got == parse_id_line(d_lines[FirstIdPlace])
                    IN  IF got.none THEN here = {}
                        ELSE /\ here = {Len(d_boards)}
                             /\ d_boards[Len(d_boards)] =
                                  Board(d_last.port, got.board_id, got.fw, got.caps,
                                        OrEmpty(ports_all[d_last.port].description))

\* C14 witness: a candidate has yielded no board although the second line of
\* its window is a valid identity line, the first being a malformed one.
C14_Witness ==
    /\ d_last.op = "parse"
    /\ Len(d_lines) = 2
    /\ BeginsWithIdSpace(d_lines[1]) /\ parse_id_line(d_lines[1]).none
    /\ ~parse_id_line(d_lines[2]).none
    /\ BoardsAt(d_boards, d_last.port) = {}
    /\ d_boards # <<>>

InScope(p) == is_usb_serial_port(ports_all[p])

\* C17: open_port is called only on ports is_usb_serial_port accepts, at most
\* once per port and in the order of enumeration, and no other operation touches
\* a port it rejects.  On each port the challenge "DISCOVER?" plus newline is
\* written at most once, on a transport that was opened and is not closed yet;
\* flush follows a write that succeeded; nothing is read unless write and flush
\* succeeded; and a Board exists for the port only once a read pass was made.
C17_StepsInOrderOnInScopePorts ==
    /\ \A k \in 1..Len(d_tried) : d_tried[k] \in 1..Len(ports_all) /\ InScope(d_tried[k])
    /\ \A h, k \in 1..Len(d_tried) : h < k => d_tried[h] < d_tried[k]
    /\ d_last.port # 0 =>
          /\ InScope(d_last.port)
          /\ d_tried # <<>> /\ d_tried[Len(d_tried)] = d_last.port
    /\ Len(d_cur.written) <= 1
    /\ \A k \in 1..Len(d_cur.written) : d_cur.written[k] = <<"DISCOVER?", "\n">>
    /\ d_last.op \in {"reset", "sleep", "write", "flush", "readline", "read_lines_for"} =>
          d_last.port \in d_open
    /\ d_last.op = "write" => Len(d_cur.written) = 1
    /\ d_last.op = "flush" => d_cur.write_ok
    /\ d_last.op \in {"readline", "read_lines_for"} =>
          Len(d_cur.written) = 1 /\ d_cur.write_ok /\ d_cur.flushed
    /\ \A p \in d_open :
          BoardsAt(d_boards, p) # {} => d_last.op = "parse" /\ ReadPasses # <<>>
    /\ \A k \in 1..Len(d_boards) : \E h \in 1..Len(d_tried) : d_tried[h] = d_boards[k].port

\* C17 witness: the third port enumerated has yielded a board after the first
\* was opened and closed and the second, which the filter rejects, was passed
\* over.
C17_Witness ==
    /\ d_last.op = "parse"
    /\ d_tried = <<1, 3>>
    /\ ~InScope(2)
    /\ BoardsAt(d_boards, 3) # {}

(***************************************************************************)
(* Claims about broadcast_command                                          *)
(***************************************************************************)
BoardPorts == 1..Len(b_boards)

SomeWriteMade == \E k \in BoardPorts : b_ops[k].write > 0

AfterWritePhase == b_pc \in {"flush", "read", "done"}

\* C1: when broadcast_command has returned or raised, every transport it opened
\* has been closed.
C1_EveryOpenedTransportClosed ==
    b_pc = "done" => b_opened \subseteq b_closed

\* C2: no write is made before open_port has been called for every board of the
\* list, and open_port is called once per board: no open follows a write.
C2_OpensPrecedeWrites ==
    /\ \A k \in BoardPorts : b_ops[k].open <= 1
    /\ SomeWriteMade => \A k \in BoardPorts : b_ops[k].open = 1
    /\ b_last.op = "open" => ~SomeWriteMade

\* C2 witness: a write has just been made on the transport of a board that is not
\* the first of the list, after the open of another board failed.
C2_Witness ==
    /\ b_last.op = "write"
    /\ b_last.port > 1
    /\ \E w \in b_warn : w.kind = "open"

\* C3: when at least one open succeeded, the command is written exactly once to
\* every board whose open succeeded and never to a board whose open failed; a
\* board whose open failed has a warning and takes no part in the later steps,
\* and the call goes on to its end.
C3_WrittenOnceToEveryOpenedBoard ==
    (b_pc = "done" /\ b_opened # {}) =>
        /\ b_result = "returned"
        /\ \A k \in BoardPorts :
              IF k \in b_opened
              THEN b_ops[k].write = 1
              ELSE /\ b_ops[k].write = 0 /\ b_ops[k].reset = 0
                   /\ b_ops[k].flush = 0 /\ b_ops[k].read = 0
                   /\ Warning("open", b_boards[k].board_id, k) \in b_warn

SersPorts == {sers[k].ser : k \in 1..Len(sers)}

BidOfPort(p) == b_boards[p].board_id

\* C4: a write that times out or fails prints a warning for that board only, the
\* write is still made on every other transport of sers, and broadcast_command
\* never raises on account of a transport operation that failed.
C4_WriteFailureContained ==
    /\ b_result # "raised"
    /\ (b_last.op = "write" /\ b_last.outcome # "ok") =>
          /\ Cardinality(b_last.warned) = 1
          /\ \A w \in b_last.warned : w.bid = BidOfPort(b_last.port) /\ w.port = b_last.port
    /\ \A w \in b_warn :
          w.kind \in {"write_timeout", "write_error"} => b_ops[w.port].write = 1
    /\ AfterWritePhase => \A p \in SersPorts : b_ops[p].write = 1

\* C4 witness: the call returned after the write on the first transport of sers
\* failed and the write on a later one succeeded, with some flush and close
\* attempted on both.
C4_Witness ==
    /\ b_result = "returned"
    /\ Len(sers) >= 2
    /\ \E w \in b_warn : w.kind = "write_error" /\ w.port = sers[1].ser
    /\ \A w \in b_warn : w.port # sers[2].ser
    /\ b_ops[sers[2].ser].write = 1
    /\ b_ops[sers[2].ser].close = 1

\* the transport operations of the phases after the open loop
LaterOps == {"reset", "write", "flush", "read"}

\* C11: when broadcast_command opened no transport (the board list is empty, or
\* every open failed), it prints the report and returns without raising, having
\* made no write, flush, read or buffer reset and no settle or acknowledgement
\* delay; with an empty board list it calls no transport operation at all.
C11_NothingOpenedNothingDone ==
    /\ b_opened = {} =>
          /\ b_slept = <<>>
          /\ \A k \in BoardPorts : \A op \in LaterOps \cup {"close"} : b_ops[k][op] = 0
          /\ b_last.op \in {"none", "open", "report", "return"}
          /\ b_pc = "done" => b_report /\ b_result = "returned"
    /\ b_boards = <<>> => b_last.op \in {"none", "report", "return"}
    /\ b_report => b_opened = {}

\* C11 witness: the call has returned with the report after the open of each of
\* two boards or more failed.
C11_Witness ==
    /\ b_pc = "done" /\ b_result = "returned"
    /\ Len(b_boards) >= 2
    /\ b_opened = {}
    /\ b_report
    /\ \A k \in BoardPorts : b_ops[k].open = 1

\* transports opened on which close() has not been called
OpenNow == b_opened \ b_closed

SomeFlushMade == \E k \in BoardPorts : b_ops[k].flush > 0

SomeReadMade ==
    \/ \E k \in BoardPorts : b_ops[k].read > 0
    \/ b_last.op \in {"readline", "read_lines_for"}

\* C15: no flush is made before the write was attempted on every open transport,
\* no acknowledgement read starts before every open transport was flushed, and
\* every transport that was opened, one whose write failed included, has been
\* flushed once and read once when it is closed, and is closed by the end.
C15_PhasesInOrderOverEveryOpened ==
    /\ SomeFlushMade => \A p \in OpenNow : b_ops[p].write = 1
    /\ SomeReadMade => \A p \in OpenNow : b_ops[p].flush = 1
    /\ \A p \in b_opened : b_ops[p].flush <= 1 /\ b_ops[p].read <= 1
    /\ \A p \in b_closed : b_ops[p].flush = 1 /\ b_ops[p].read = 1
    /\ b_pc = "done" => b_opened \subseteq b_closed

\* the payloads handed to write, over all transports
SentPayloads ==
    UNION { {b_sent[p][k] : k \in 1..Len(b_sent[p])} : p \in BoardPorts }

SentAtMostOnce == \A p \in BoardPorts : Len(b_sent[p]) <= 1

Blank(s, from, to) == \A k \in from..to : s[k] \in {" ", "\t", "\n"}

\* text is what is left of s once the blanks at its two ends are taken away
IsTrimOf(text, s) ==
    /\ \E i, j \in 0..Len(s) :
          /\ i <= j \/ text = <<>>
          /\ text = SubSeq(s, i + 1, j)
          /\ Blank(s, 1, i) /\ Blank(s, j + 1, Len(s))
    /\ text # <<>> => ~Blank(text, 1, 1) /\ ~Blank(text, Len(text), Len(text))

\* C16, as stated: every payload written is the cmd argument followed by one
\* newline, and no transport is written to twice.
C16_PayloadIsCommandPlusNewline ==
    /\ SentAtMostOnce
    /\ \A pl \in SentPayloads : pl = b_cmd \o <<"\n">>

\* C16, amended: every payload written is the cmd argument without the
\* whitespace at its two ends, followed by one newline; what lies between is
\* unchanged, so a cmd with no whitespace at its ends is written as it is plus
\* the newline.  All transports are handed the same payload, each at most once.
C16_PayloadIsTrimmedCommandPlusNewline ==
    /\ SentAtMostOnce
    /\ Cardinality(SentPayloads) <= 1
    /\ \A pl \in SentPayloads :
          /\ pl[Len(pl)] = "\n"
          /\ IsTrimOf(SubSeq(pl, 1, Len(pl) - 1), b_cmd)
          /\ (~Blank(b_cmd, 1, 1) /\ ~Blank(b_cmd, Len(b_cmd), Len(b_cmd)))
                => pl = b_cmd \o <<"\n">>

\* C16 witness: the call has returned after writing to two transports a cmd that
\* ends with a newline.
C16_Witness ==
    /\ b_result = "returned"
    /\ b_cmd[Len(b_cmd)] = "\n"
    /\ \E p, q \in BoardPorts : p # q /\ Len(b_sent[p]) = 1 /\ Len(b_sent[q]) = 1

\* the acknowledgement read of a transport has just ended on a failed readline
ReadJustFailed == b_last.op = "read_lines_for" /\ b_last.outcome = "error"

\* C18: in the acknowledgement phase a transport whose read fails counts as one
\* that answered nothing: no line is printed for its board, nothing is raised,
\* and every transport of sers is still read once.
C18_FailedReadShowsNothing ==
    /\ b_result # "raised" /\ ~b_raising
    /\ ReadJustFailed => b_last.shown = <<>>
    /\ (b_pc = "done" /\ ~b_report) => \A p \in SersPorts : b_ops[p].read = 1

(***************************************************************************)
(* Termination                                                             *)
(***************************************************************************)
\* C19: every call of discover_boards and every call of broadcast_command comes
\* to its end (it returns or raises), whatever the devices send or fail to send:
\* each read pass ends at its deadline at the latest.
C19_EveryCallEnds == <>(d_pc = "done" \/ b_pc = "done")

\* C19 witness: a scan has returned after a candidate from which no identity
\* line was obtained within two read passes and another that yielded a board.
C19_Witness ==
    /\ d_pc = "done" /\ d_result = "returned"
    /\ Len(d_tried) >= 2
    /\ d_hard # {}
    /\ d_uniq # <<>>

(***************************************************************************)
(* Claims about main                                                       *)
(***************************************************************************)
\* --only was given on the command line
OnlyGiven == m_args.only.given

\* a board passes the filter the user gave
Passes(b) == \E k \in 1..Len(m_args.only.ids) : m_args.only.ids[k] = b.board_id

\* bs is the sub-list of the boards discovered that pass the filter, in
\* discovery order
IsFilteredList(bs) ==
    \E keep \in SUBSET (1..Len(m_found)) :
        /\ \A k \in 1..Len(m_found) : k \in keep <=> (~OnlyGiven \/ Passes(m_found[k]))
        /\ Len(bs) = Cardinality(keep)
        /\ \A i \in 1..Len(bs) :
              \E k \in keep : /\ bs[i] = m_found[k]
                              /\ Cardinality({h \in keep : h < k}) = i - 1

\* C12: for a sync command, main returns 2 without calling broadcast_command
\* when discovery gave no board or no discovered board passes the --only filter
\* given; otherwise it calls broadcast_command exactly once, with the discovered
\* boards that pass the filter (all of them when --only is absent), in discovery
\* order.
C12_NoTargetsOrOneBroadcast ==
    (m_pc = "done" /\ m_args.cmd \in SyncCommands) =>
        IF IsFilteredList(<<>>)
        THEN m_exit = ExitCode(2) /\ m_calls = <<>>
        ELSE Len(m_calls) = 1 /\ IsFilteredList(m_calls[1].boards)

=============================================================================
